---------------------------- MODULE Spec2Model ----------------------------
(***************************************************************************)
(* A model of pennylane/beta/tapes/tape.py: the QuantumTape recorder, its  *)
(* construction pass, the parameter registry, the executor and the         *)
(* finite-difference differentiation engine.                               *)
(*                                                                         *)
(* One tape object is modelled.  Objects created while the tape records    *)
(* are identified by their position in the tape's queue; an operation's    *)
(* mutable data vector is kept in `data`, indexed by that position.        *)
(* Every public call is one atomic step (the code is single threaded and   *)
(* synchronous); `last` records what the most recent call did.             *)
(***************************************************************************)
EXTENDS Integers, Sequences, FiniteSets

(***************************************************************************)
(* Bounds of the model.                                                    *)
(***************************************************************************)
\* the largest number of objects created inside the recording session
\* (operations, measurements with their observable, nested tapes)
MaxRecords == 3
\* the largest number of data-vector slots recorded on the tape
MaxParams == 2
\* the largest number of recording sessions opened on the tape
MaxSessions == 2

(***************************************************************************)
(* Inputs.                                                                 *)
(***************************************************************************)
\* the step size h of the finite difference, an option of igrad_numeric
\* (it is even, so that h/2 is a value of the model)
H == 2

\* parameter values a caller supplies in a params sequence
ParamVals == {1, 2}

\* exception names
NoExc == "none"

\* the operations a session can create: name, wires, the arguments that
\* become the data vector, and the class attribute grad_method ("None"
\* models Python's None)
Gates ==
    { [name |-> "RX", wires |-> {0}, args |-> <<1>>, grad |-> "A"],
      [name |-> "RY", wires |-> {1}, args |-> <<2>>, grad |-> "A"],
      [name |-> "QubitUnitary", wires |-> {0, 1}, args |-> <<1>>,
       grad |-> "None"],
      [name |-> "U2", wires |-> {0}, args |-> <<1, 2>>, grad |-> "A"] }

\* the measurements a session can create: return type, wires, and whether
\* the measurement process wraps an observable ("owns" annotation)
Measurements ==
    { [rtype |-> "expval", wires |-> {0},    owns |-> TRUE] }

Range(s) == { s[i] : i \in 1..Len(s) }

\* the wires a probability measurement is asked for
ProbabilityWires == { {0, 1} }

\* 0, 1, ..., n-1 in ascending order: how set(range(n)) iterates
RangeSeq(n) == [i \in 1..n |-> i - 1]

\* 2 ** n
RECURSIVE Pow2(_)
Pow2(n) == IF n = 0 THEN 1 ELSE 2 * Pow2(n - 1)

VARIABLES
    queue,            \* AnnotatedQueue._queue: the recorded entries, in order
    data,             \* data[i]: the data vector of the object queue[i]
    active,           \* the tape is an active recording context
    patched,          \* Operation.queue is mock_queue (the monkeypatch)
    sessions,         \* how many times the tape has been entered
    records,          \* how many objects the session has created
    ops,              \* _ops
    obs,              \* _obs
    par_info,         \* _par_info
    trainable_params, \* _trainable_params, in the order it iterates
    graph,            \* _graph
    output_dim,       \* _output_dim
    is_sampled,       \* is_sampled
    last              \* what the most recent call did

vars == <<queue, data, active, patched, sessions, records, ops, obs, par_info,
          trainable_params, graph, output_dim, is_sampled, last>>

tapeState == <<ops, obs, par_info, output_dim, is_sampled>>

NoGraph == [built |-> FALSE]

\* what `last` records of a call: its name and the exception it raised
\* (NoExc: it returned); the calls that take them also record the arguments
\* idx, order, use_graph and free_only, the calls the device has received
\* and the columns of the Jacobian; params is recorded when the device has
\* raised: it is what execute_device had written to the tape; rows is the
\* number of rows of the Jacobian, method what _grad_method returned
Did(call, exc) ==
    [call |-> call, exc |-> exc, idx |-> 0, order |-> 0, use_graph |-> FALSE,
     free_only |-> FALSE, params |-> <<>>, resets |-> 0, execs |-> 0,
     cols |-> <<>>, rows |-> 0, method |-> ""]

\* QuantumTape.__init__
Init ==
    /\ queue = <<>>
    /\ data = <<>>
    /\ active = FALSE
    /\ patched = FALSE
    /\ sessions = 0
    /\ records = 0
    /\ ops = <<>>
    /\ obs = <<>>
    /\ par_info = <<>>
    /\ trainable_params = <<>>
    /\ graph = NoGraph
    /\ output_dim = 0
    /\ is_sampled = FALSE
    /\ last = Did("init", NoExc)

(***************************************************************************)
(* Properties and helpers of the parameter registry.                       *)
(***************************************************************************)
\* the keys of _par_info: par_info[k + 1] is the entry of global index k
HasKey(idx) == idx + 1 \in DOMAIN par_info

\* num_params
num_params == Len(trainable_params)

\* the value the registry finds at global index idx: op.data[p_idx] of
\* _par_info[idx]
ValueAt(d, idx) == d[par_info[idx + 1].op][par_info[idx + 1].p_idx + 1]

\* the slots of every recorded data vector
NumSlots == LET RECURSIVE Sum(_)
                Sum(i) == IF i = 0 THEN 0 ELSE Len(data[i]) + Sum(i - 1)
            IN  Sum(Len(queue))

\* [o.data for o in self.operations], flattened; a nested tape has no data
RECURSIVE Flatten(_, _)
Flatten(os, d) ==
    IF os = <<>> THEN <<>> ELSE d[Head(os)] \o Flatten(Tail(os), d)

HasNestedTape == \E i \in 1..Len(ops) : queue[ops[i]].kind = "tape"

\* get_parameters on data vectors d
get_parameters_of(d, free_only) ==
    IF HasNestedTape
    THEN [exc |-> "AttributeError", val |-> <<>>]
    ELSE LET params == Flatten(ops, d)
             keep(i) == (i - 1) \in Range(trainable_params)
             RECURSIVE Filter(_)
             Filter(i) == IF i > Len(params) THEN <<>>
                          ELSE (IF keep(i) THEN <<params[i]>> ELSE <<>>)
                               \o Filter(i + 1)
         IN  [exc |-> NoExc,
              val |-> IF free_only THEN Filter(1) ELSE params]

get_parameters(free_only) == get_parameters_of(data, free_only)

\* the write loop of set_parameters: pairs (idx, p) taken in order
RECURSIVE WriteLoop(_, _, _, _)
WriteLoop(d, idxs, parameters, k) ==
    IF k > Len(idxs) \/ k > Len(parameters)
    THEN [exc |-> NoExc, data |-> d]
    ELSE IF ~HasKey(idxs[k])
         THEN [exc |-> "KeyError", data |-> d]
         ELSE LET e == par_info[idxs[k] + 1]
              IN  WriteLoop([d EXCEPT ![e.op][e.p_idx + 1] = parameters[k]],
                            idxs, parameters, k + 1)

\* a faulty set_parameters, which pairs the values with the trainable
\* indices whatever free_only says
set_parameters_ignoring_free_only(d, parameters, free_only) ==
    LET required_length == IF free_only THEN num_params ELSE Len(par_info)
    IN  IF Len(parameters) # required_length
        THEN [exc |-> "ValueError", data |-> d]
        ELSE WriteLoop(d, trainable_params, parameters, 1)

\* set_parameters on data vectors d
set_parameters_of(d, parameters, free_only) ==
    LET idxs == IF free_only THEN trainable_params
                ELSE RangeSeq(Len(parameters))
        required_length == IF free_only THEN num_params ELSE Len(par_info)
    IN  IF Len(parameters) # required_length
        THEN [exc |-> "ValueError", data |-> d]
        ELSE WriteLoop(d, idxs, parameters, 1)

(***************************************************************************)
(* Recording.                                                              *)
(***************************************************************************)
\* the session has closed and _construct has run
constructed == sessions > 0 /\ ~active

\* QuantumTape.__enter__
Enter ==
    /\ ~active
    /\ sessions = 0
    /\ active' = TRUE
    /\ patched' = TRUE
    /\ sessions' = sessions + 1
    /\ last' = Did("enter", NoExc)
    /\ UNCHANGED <<queue, data, records, tapeState, trainable_params, graph>>

\* an operation is created inside the session: Operation.queue is called,
\* which is mock_queue while the monkeypatch is installed
RecordOperation ==
    /\ active
    /\ records < MaxRecords
    /\ \E g \in Gates :
          /\ NumSlots + Len(g.args) <= MaxParams
          /\ IF patched
             THEN /\ queue' = Append(queue,
                        [kind |-> "op", name |-> g.name, wires |-> g.wires,
                         grad |-> g.grad, info |-> "none", rtype |-> "none"])
                  /\ data' = Append(data, g.args)
             ELSE UNCHANGED <<queue, data>>
    /\ records' = records + 1
    /\ last' = Did("record", NoExc)
    /\ UNCHANGED <<active, patched, sessions, tapeState, trainable_params, graph>>

\* a measurement function is called inside the session: the observable it
\* wraps is queued with an owner annotation, then the measurement process
RecordMeasurement ==
    /\ active
    /\ patched
    /\ records < MaxRecords
    /\ \E m \in Measurements :
          LET ob == [kind |-> "op", name |-> "PauliZ", wires |-> m.wires,
                     grad |-> "None", info |-> "owner", rtype |-> "none"]
              mp == [kind |-> "meas", name |-> m.rtype, wires |-> m.wires,
                     grad |-> "None",
                     info |-> IF m.owns THEN "owns" ELSE "none",
                     rtype |-> m.rtype]
          IN  IF m.owns
              THEN /\ queue' = queue \o <<ob, mp>>
                   /\ data' = data \o << <<>>, <<>> >>
              ELSE /\ queue' = Append(queue, mp)
                   /\ data' = Append(data, <<>>)
    /\ records' = records + 1
    /\ last' = Did("record", NoExc)
    /\ UNCHANGED <<active, patched, sessions, tapeState, trainable_params, graph>>

\* probs(wires) is called inside the session: the measurement process is
\* queued by itself, it wraps no observable
RecordProbability ==
    /\ active
    /\ records < MaxRecords
    /\ \E w \in ProbabilityWires :
          /\ queue' = Append(queue,
                [kind |-> "meas", name |-> "probs", wires |-> w,
                 grad |-> "None", info |-> "none", rtype |-> "probs"])
          /\ data' = Append(data, <<>>)
    /\ records' = records + 1
    /\ last' = Did("record", NoExc)
    /\ UNCHANGED <<active, patched, sessions, tapeState, trainable_params, graph>>

\* a nested tape is recorded inside the session: its __enter__ appends it to
\* this tape's queue and its __exit__ restores ORIGINAL_QUEUE
RecordTape ==
    /\ active
    /\ records < MaxRecords
    /\ queue' = Append(queue,
          [kind |-> "tape", name |-> "QuantumTape", wires |-> {},
           grad |-> "None", info |-> "none", rtype |-> "none"])
    /\ data' = Append(data, <<>>)
    /\ patched' = FALSE
    /\ records' = records + 1
    /\ last' = Did("record", NoExc)
    /\ UNCHANGED <<active, sessions, tapeState, trainable_params, graph>>

\* the entries _construct appends to _ops, scanning the queue from entry i
RECURSIVE ConstructOps(_)
ConstructOps(i) ==
    IF i > Len(queue) THEN <<>>
    ELSE (IF \/ (queue[i].info = "none" /\ queue[i].kind = "op")
             \/ queue[i].kind = "tape"
          THEN <<i>> ELSE <<>>) \o ConstructOps(i + 1)

\* the entries _construct writes to _par_info, scanning the queue from entry i
RECURSIVE ConstructParInfo(_)
ConstructParInfo(i) ==
    IF i > Len(queue) THEN <<>>
    ELSE (IF queue[i].info = "none" /\ queue[i].kind = "op"
          THEN [p \in 1..Len(data[i]) |-> [op |-> i, p_idx |-> p - 1]]
          ELSE <<>>) \o ConstructParInfo(i + 1)

\* is entry i registered as an observable pair by _construct
IsObsPair(i) ==
    /\ queue[i].kind = "meas"
    /\ (queue[i].rtype = "probs" \/ queue[i].info = "owns")

\* the pairs _construct appends to _obs, scanning the queue from entry i;
\* owner is the queue entry of the owned observable (the measurement itself
\* for a probability)
RECURSIVE ConstructObs(_)
ConstructObs(i) ==
    IF i > Len(queue) THEN <<>>
    ELSE (IF IsObsPair(i)
          THEN << [m |-> i,
                   owner |-> IF queue[i].rtype = "probs" THEN i ELSE i - 1] >>
          ELSE <<>>) \o ConstructObs(i + 1)

\* a faulty count, which adds one to _output_dim for every observable pair,
\* a probability included
ConstructDim_one_per_pair(i) ==
    Cardinality({ k \in i..Len(queue) : IsObsPair(k) })

\* what _construct adds to _output_dim, scanning the queue from entry i
RECURSIVE ConstructDim(_)
ConstructDim(i) ==
    IF i > Len(queue) THEN 0
    ELSE (IF ~IsObsPair(i) THEN 0
          ELSE IF queue[i].rtype = "probs"
               THEN Pow2(Cardinality(queue[i].wires))
               ELSE 1) + ConstructDim(i + 1)

\* QuantumTape._construct
Construct ==
    /\ ops' = ops \o ConstructOps(1)
    /\ par_info' = ConstructParInfo(1)
    /\ obs' = obs \o ConstructObs(1)
    /\ output_dim' = output_dim + ConstructDim(1)
    /\ is_sampled' = (is_sampled \/ \E i \in 1..Len(queue) :
                          /\ IsObsPair(i)
                          /\ queue[i].rtype = "sample")
    /\ trainable_params' = RangeSeq(Len(ConstructParInfo(1)))

\* QuantumTape.__exit__
Exit ==
    /\ active
    /\ active' = FALSE
    /\ patched' = FALSE
    /\ Construct
    /\ last' = Did("exit", NoExc)
    /\ UNCHANGED <<queue, data, sessions, records, graph>>

\* QuantumTape.__enter__ on a tape that has been recorded before: the queue
\* keeps the entries of the earlier sessions
Reenter ==
    /\ ~active
    /\ sessions >= 1
    /\ sessions < MaxSessions
    /\ active' = TRUE
    /\ patched' = TRUE
    /\ sessions' = sessions + 1
    /\ last' = Did("enter", NoExc)
    /\ UNCHANGED <<queue, data, records, tapeState, trainable_params, graph>>

(***************************************************************************)
(* The parameter registry: the trainable_params setter and set_parameters. *)
(***************************************************************************)
\* an index a caller supplies: an int, or a value that is not an int
IntItem(k) == [isint |-> TRUE, v |-> k]
NonInt == [isint |-> FALSE, v |-> 0]

\* the members of S in ascending order
RECURSIVE Ascending(_)
Ascending(S) ==
    IF S = {} THEN <<>>
    ELSE LET m == CHOOSE x \in S : \A y \in S : x <= y
         IN  <<m>> \o Ascending(S \ {m})

\* the sequence s reversed
Reverse(s) == [i \in 1..Len(s) |-> s[Len(s) + 1 - i]]

\* the orders in which a collection of the indices S iterates: ascending
\* (a set of small ints), or not (a list, a tuple, a set of larger ints)
Orders(S) == { Ascending(S), Reverse(Ascending(S)) }

\* collections with a negative or a non-int member
BadCollections ==
    { <<IntItem(-1)>>, <<IntItem(0), IntItem(-1)>>,
      <<NonInt>>, <<NonInt, IntItem(0)>> }

\* the collections offered to the setter: the indices of the tape's
\* parameters and the first index past them, in either iteration order, and
\* the collections with a negative or a non-int member
IndexCollections ==
    LET good == UNION { Orders(S) : S \in SUBSET (0..Len(par_info)) }
    IN  { [i \in DOMAIN s |-> IntItem(s[i])] : s \in good }
        \cup BadCollections

\* the first check of the setter: a member is no int or is negative
NotPositiveInts(param_indices) ==
    \E i \in DOMAIN param_indices :
        ~param_indices[i].isint \/ param_indices[i].v < 0

\* the second check of the setter: a member is greater than num_params
TooLarge(param_indices) ==
    \E i \in DOMAIN param_indices : param_indices[i].v > num_params

\* a faulty setter, which stores the collection before it validates it
trainable_params_setter_storing_first(param_indices) ==
    [exc |-> IF NotPositiveInts(param_indices) \/ TooLarge(param_indices)
             THEN "ValueError" ELSE NoExc,
     trainable |-> [i \in DOMAIN param_indices |-> param_indices[i].v]]

\* trainable_params.setter: the exception raised and the collection held
\* afterwards
trainable_params_setter(param_indices) ==
    IF NotPositiveInts(param_indices)
    THEN [exc |-> "ValueError", trainable |-> trainable_params]
    ELSE IF TooLarge(param_indices)
    THEN [exc |-> "ValueError", trainable |-> trainable_params]
    ELSE [exc |-> NoExc,
          trainable |-> [i \in DOMAIN param_indices |-> param_indices[i].v]]

\* tape.trainable_params = param_indices
SetTrainable ==
    /\ constructed
    /\ \E param_indices \in IndexCollections :
          \E r \in { trainable_params_setter(param_indices) } :
              /\ trainable_params' = r.trainable
              /\ last' = Did("trainable_params", r.exc)
    /\ UNCHANGED <<queue, data, active, patched, sessions, records,
                   tapeState, graph>>

\* the params sequences a caller supplies where n values are required: n
\* times the same value, n values that alternate (2, 1, 2, ...), and
\* sequences too short and too long
ParamSeqs(n) ==
    { [i \in 1..n |-> v] : v \in ParamVals }
    \cup { [i \in 1..n |-> 1 + (i % 2)] }
    \cup { <<>>, [i \in 1..(n + 1) |-> 1] }

\* set_parameters
SetParameters ==
    /\ constructed
    /\ \E free_only \in BOOLEAN :
       \E parameters \in ParamSeqs(IF free_only THEN num_params
                                   ELSE Len(par_info)) :
          \E r \in { set_parameters_of(data, parameters, free_only) } :
              /\ data' = r.data
              /\ last' = Did("set_parameters", r.exc)
    /\ UNCHANGED <<queue, active, patched, sessions, records, tapeState,
                   trainable_params, graph>>

\* set_parameters(get_parameters(free_only), free_only): the caller writes
\* back the values it has just read
RoundTrip ==
    /\ constructed
    /\ \E free_only \in BOOLEAN :
          LET g == get_parameters(free_only)
              r == IF g.exc # NoExc THEN [exc |-> g.exc, data |-> data]
                   ELSE set_parameters_of(data, g.val, free_only)
          IN  /\ data' = r.data
              /\ last' = [Did("round_trip", r.exc) EXCEPT
                              !.free_only = free_only]
    /\ UNCHANGED <<queue, active, patched, sessions, records, tapeState,
                   trainable_params, graph>>

(***************************************************************************)
(* The dependency graph (CircuitGraph, built from the operations and the   *)
(* observables) and the choice of the gradient method.                     *)
(***************************************************************************)
\* QuantumTape.observables: the owner of every observable pair
observables == [k \in DOMAIN obs |-> obs[k].owner]

\* CircuitGraph(self.operations, self.observables, self.wires): the nodes
\* in circuit order
BuildGraph == [built |-> TRUE, nodes |-> ops \o observables]

\* the graph has an edge from its k-th node to a later node on a shared wire
Edge(g, k, l) ==
    /\ k < l
    /\ queue[g.nodes[k]].wires \cap queue[g.nodes[l]].wires # {}

\* a path leads from the k-th node of the graph to its l-th node
RECURSIVE Path(_, _, _)
Path(g, k, l) ==
    \/ k = l
    \/ \E m \in (k + 1)..l : Edge(g, k, m) /\ Path(g, m, l)

\* CircuitGraph.nodes_between(a, b) is not empty
NodesBetween(g, a, b) ==
    \E k, l \in DOMAIN g.nodes :
        g.nodes[k] = a /\ g.nodes[l] = b /\ Path(g, k, l)

\* QuantumTape.graph
graph_of(g) == IF g.built THEN g ELSE BuildGraph

\* a faulty _grad_method, which consults the graph whatever use_graph says
grad_method_always_graph(g, idx, use_graph) ==
    IF ~HasKey(idx)
    THEN [exc |-> "KeyError", method |-> "None", graph |-> g]
    ELSE LET op == par_info[idx + 1].op
         IN  IF queue[op].grad = "None"
             THEN [exc |-> NoExc, method |-> "None", graph |-> g]
             ELSE LET g1 == IF observables = <<>> THEN g ELSE graph_of(g)
                      zero == \A k \in DOMAIN observables :
                                 ~NodesBetween(g1, op, observables[k])
                  IN  [exc |-> NoExc,
                       method |-> IF zero THEN "0" ELSE "F",
                       graph |-> g1]

\* QuantumTape._grad_method with the cached graph g
grad_method_of(g, idx, use_graph) ==
    IF ~HasKey(idx)
    THEN [exc |-> "KeyError", method |-> "None", graph |-> g]
    ELSE LET op == par_info[idx + 1].op
         IN  IF queue[op].grad = "None"
             THEN [exc |-> NoExc, method |-> "None", graph |-> g]
             ELSE IF g.built \/ use_graph
                  THEN LET g1 == IF observables = <<>> THEN g ELSE graph_of(g)
                           zero == \A k \in DOMAIN observables :
                                      ~NodesBetween(g1, op, observables[k])
                       IN  [exc |-> NoExc,
                            method |-> IF zero THEN "0" ELSE "F",
                            graph |-> g1]
                  ELSE [exc |-> NoExc, method |-> "F", graph |-> g]

\* the property QuantumTape.graph is read
Graph ==
    /\ constructed
    /\ graph' = graph_of(graph)
    /\ last' = Did("graph", NoExc)
    /\ UNCHANGED <<queue, data, active, patched, sessions, records,
                   tapeState, trainable_params>>

\* _grad_method(idx, use_graph=use_graph)
GradMethod ==
    /\ constructed
    /\ \E idx \in 0..Len(par_info) : \E use_graph \in BOOLEAN :
          \E r \in { grad_method_of(graph, idx, use_graph) } :
              /\ graph' = r.graph
              /\ last' = [Did("grad_method", r.exc) EXCEPT
                              !.idx = idx, !.use_graph = use_graph,
                              !.method = r.method]
    /\ UNCHANGED <<queue, data, active, patched, sessions, records,
                   tapeState, trainable_params>>

(***************************************************************************)
(* The executor.  A device is modelled by the calls it has received and by *)
(* the execution at which it raises (failAt; 0: it never raises).          *)
(***************************************************************************)
NewDevice(failAt) == [resets |-> 0, execs |-> 0, failAt |-> failAt]

\* a faulty execute_device, which restores the values when the device raises
execute_device_restoring(d, dev, params) ==
    LET dev1 == [dev EXCEPT !.resets = @ + 1]
        current_parameters == get_parameters_of(d, TRUE)
    IN  IF current_parameters.exc # NoExc
        THEN [exc |-> current_parameters.exc, data |-> d, dev |-> dev1]
        ELSE LET s1 == set_parameters_of(d, params, TRUE)
                 dev2 == [dev1 EXCEPT !.execs = @ + 1]
                 s2 == set_parameters_of(s1.data, current_parameters.val, TRUE)
             IN  IF s1.exc # NoExc
                 THEN [exc |-> s1.exc, data |-> s1.data, dev |-> dev1]
                 ELSE IF dev2.execs = dev2.failAt
                      THEN [exc |-> "DeviceError", data |-> s2.data,
                            dev |-> dev2]
                      ELSE [exc |-> s2.exc, data |-> s2.data, dev |-> dev2]

\* QuantumTape.execute_device on data vectors d
execute_device_of(d, dev, params) ==
    LET dev1 == [dev EXCEPT !.resets = @ + 1]
        current_parameters == get_parameters_of(d, TRUE)
    IN  IF current_parameters.exc # NoExc
        THEN [exc |-> current_parameters.exc, data |-> d, dev |-> dev1]
        ELSE LET s1 == set_parameters_of(d, params, TRUE)
                 dev2 == [dev1 EXCEPT !.execs = @ + 1]
             IN  IF s1.exc # NoExc
                 THEN [exc |-> s1.exc, data |-> s1.data, dev |-> dev1]
                 ELSE IF dev2.execs = dev2.failAt
                      THEN [exc |-> "DeviceError", data |-> s1.data,
                            dev |-> dev2]
                      ELSE LET s2 == set_parameters_of(s1.data,
                                         current_parameters.val, TRUE)
                           IN  [exc |-> s2.exc, data |-> s2.data, dev |-> dev2]

\* a params argument: None, or a sequence
None == [none |-> TRUE, val |-> <<>>]
Some(s) == [none |-> FALSE, val |-> s]
ParamArgs == {None} \cup { Some(s) : s \in ParamSeqs(num_params) }

\* QuantumTape.execute on data vectors d
execute_of(d, dev, params) ==
    IF params.none
    THEN LET p == get_parameters_of(d, TRUE)
         IN  IF p.exc # NoExc
             THEN [exc |-> p.exc, data |-> d, dev |-> dev]
             ELSE execute_device_of(d, dev, p.val)
    ELSE execute_device_of(d, dev, params.val)

\* execute_device(params, device)
ExecuteDevice ==
    /\ constructed
    /\ \E params \in ParamSeqs(num_params) : \E failAt \in 0..1 :
          \E r \in { execute_device_of(data, NewDevice(failAt), params) } :
              /\ data' = r.data
              /\ last' = [Did("execute_device", r.exc) EXCEPT
                              !.params = IF r.exc = "DeviceError"
                                         THEN params ELSE <<>>,
                              !.resets = r.dev.resets, !.execs = r.dev.execs]
    /\ UNCHANGED <<queue, active, patched, sessions, records, tapeState,
                   trainable_params, graph>>

\* execute(device, params)
Execute ==
    /\ constructed
    /\ \E params \in ParamArgs :
          \E r \in { execute_of(data, NewDevice(0), params) } :
              /\ data' = r.data
              /\ last' = [Did("execute", r.exc) EXCEPT
                              !.resets = r.dev.resets, !.execs = r.dev.execs]
    /\ UNCHANGED <<queue, active, patched, sessions, records, tapeState,
                   trainable_params, graph>>

(***************************************************************************)
(* The differentiation engine.                                             *)
(***************************************************************************)
\* the finite-difference orders a caller asks for
FdOrders == {1, 2, 3}

\* params with delta added at position idx (params + shift)
Shifted(params, idx, delta) == [params EXCEPT ![idx + 1] = @ + delta]

\* a faulty igrad_numeric, which evaluates the baseline before it looks at
\* the order
igrad_numeric_baseline_first(d, dev, idx, params, order, has_y0) ==
    LET p == IF params.none THEN get_parameters_of(d, TRUE)
             ELSE [exc |-> NoExc, val |-> params.val]
    IN  IF p.exc # NoExc
        THEN [exc |-> p.exc, data |-> d, dev |-> dev]
        ELSE IF idx + 1 \notin DOMAIN p.val
        THEN [exc |-> "IndexError", data |-> d, dev |-> dev]
        ELSE LET y0 == execute_device_of(d, dev, p.val)
             IN  IF y0.exc # NoExc THEN y0
                 ELSE IF order = 1 \/ order = 2
                 THEN execute_device_of(y0.data, y0.dev,
                                        Shifted(p.val, idx, H))
                 ELSE [exc |-> "ValueError", data |-> y0.data, dev |-> y0.dev]

\* QuantumTape.igrad_numeric on data vectors d.  The default of
\* options.get("y0", ...) is an argument, so it is evaluated whether or not
\* the options hold y0.
igrad_numeric_of(d, dev, idx, params, order, has_y0) ==
    LET p == IF params.none THEN get_parameters_of(d, TRUE)
             ELSE [exc |-> NoExc, val |-> params.val]
    IN  IF p.exc # NoExc
        THEN [exc |-> p.exc, data |-> d, dev |-> dev]
        ELSE IF idx + 1 \notin DOMAIN p.val
        THEN [exc |-> "IndexError", data |-> d, dev |-> dev]
        ELSE IF order = 1
        THEN LET y0 == execute_device_of(d, dev, p.val)
             IN  IF y0.exc # NoExc THEN y0
                 ELSE execute_device_of(y0.data, y0.dev,
                                        Shifted(p.val, idx, H))
        ELSE IF order = 2
        THEN LET shift_forward ==
                     execute_device_of(d, dev, Shifted(p.val, idx, H \div 2))
             IN  IF shift_forward.exc # NoExc THEN shift_forward
                 ELSE execute_device_of(shift_forward.data, shift_forward.dev,
                                        Shifted(p.val, idx, 0 - (H \div 2)))
        ELSE [exc |-> "ValueError", data |-> d, dev |-> dev]

\* the loop of jacobian over the columns from column idx on; cols holds, for
\* every column done, the method found for it, whether it was assigned
\* and the device executions made for it
RECURSIVE JacobianLoop(_, _, _, _, _, _, _, _)
JacobianLoop(d, dev, g, params, order, use_graph, idx, cols) ==
    IF idx >= Len(params)
    THEN [exc |-> NoExc, data |-> d, dev |-> dev, graph |-> g, cols |-> cols]
    ELSE LET m == grad_method_of(g, idx, use_graph)
         IN  IF m.exc # NoExc
             THEN [exc |-> m.exc, data |-> d, dev |-> dev, graph |-> m.graph,
                   cols |-> cols]
             ELSE IF m.method = "F"
             THEN LET r == igrad_numeric_of(d, dev, idx, Some(params), order,
                                            order = 1)
                  IN  IF r.exc # NoExc
                      THEN [exc |-> r.exc, data |-> r.data, dev |-> r.dev,
                            graph |-> m.graph, cols |-> cols]
                      ELSE JacobianLoop(r.data, r.dev, m.graph, params, order,
                               use_graph, idx + 1,
                               Append(cols, [method |-> "F", assigned |-> TRUE,
                                       execs |-> r.dev.execs - dev.execs]))
             ELSE JacobianLoop(d, dev, m.graph, params, order, use_graph,
                      idx + 1,
                      Append(cols, [method |-> m.method, assigned |-> FALSE,
                                    execs |-> 0]))

\* QuantumTape.jacobian on data vectors d with the cached graph g
jacobian_of(d, dev, g, params, order, use_graph) ==
    LET p == IF params.none THEN get_parameters_of(d, TRUE)
             ELSE [exc |-> NoExc, val |-> params.val]
    IN  IF p.exc # NoExc
        THEN [exc |-> p.exc, data |-> d, dev |-> dev, graph |-> g,
              cols |-> <<>>]
        ELSE IF order = 1
        THEN LET y0 == execute_device_of(d, dev, p.val)
             IN  IF y0.exc # NoExc
                 THEN [exc |-> y0.exc, data |-> y0.data, dev |-> y0.dev,
                       graph |-> g, cols |-> <<>>]
                 ELSE JacobianLoop(y0.data, y0.dev, g, p.val, order,
                                   use_graph, 0, <<>>)
        ELSE JacobianLoop(d, dev, g, p.val, order, use_graph, 0, <<>>)

\* the params a caller of the gradient methods supplies
GradParamArgs == {None}

\* igrad_numeric(idx, device, params, order=order)
IgradNumeric ==
    /\ constructed
    /\ \E idx \in 0..Len(par_info) : \E params \in GradParamArgs :
       \E order \in FdOrders :
          \E r \in { igrad_numeric_of(data, NewDevice(0), idx, params, order,
                                    FALSE) } :
              /\ data' = r.data
              /\ last' = [Did("igrad_numeric", r.exc) EXCEPT
                              !.idx = idx, !.order = order,
                              !.resets = r.dev.resets, !.execs = r.dev.execs]
    /\ UNCHANGED <<queue, active, patched, sessions, records, tapeState,
                   trainable_params, graph>>

\* jacobian(device, params, order=order, use_graph=use_graph)
Jacobian ==
    /\ constructed
    /\ \E params \in GradParamArgs : \E order \in FdOrders :
       \E use_graph \in BOOLEAN :
          \E r \in { jacobian_of(data, NewDevice(0), graph, params, order,
                               use_graph) } :
              /\ data' = r.data
              /\ graph' = r.graph
              /\ last' = [Did("jacobian", r.exc) EXCEPT
                              !.order = order, !.use_graph = use_graph,
                              !.resets = r.dev.resets, !.execs = r.dev.execs,
                              !.cols = r.cols, !.rows = output_dim]
    /\ UNCHANGED <<queue, active, patched, sessions, records, tapeState,
                   trainable_params>>

(***************************************************************************)
(* Specifications.                                                         *)
(***************************************************************************)
\* the recording session
Record ==
    \/ Enter
    \/ RecordOperation
    \/ RecordMeasurement
    \/ RecordTape
    \/ Exit

\* the whole tape
Next ==
    \/ Record
    \/ RecordProbability
    \/ Reenter
    \/ SetTrainable
    \/ SetParameters
    \/ RoundTrip
    \/ Graph
    \/ GradMethod
    \/ ExecuteDevice
    \/ Execute
    \/ IgradNumeric
    \/ Jacobian

Spec == Init /\ [][Next]_vars

\* the tape and its parameter registry
NextRegistry == Record \/ SetTrainable \/ RoundTrip

SpecRegistry == Init /\ [][NextRegistry]_vars

\* the tape and its executor
NextExecutor == Record \/ SetTrainable \/ ExecuteDevice \/ Execute

SpecExecutor == Init /\ [][NextExecutor]_vars

\* the tape and its differentiation engine
NextGradient ==
    \/ Record
    \/ RecordProbability
    \/ SetTrainable
    \/ Graph
    \/ IgradNumeric
    \/ Jacobian

SpecGradient == Init /\ [][NextGradient]_vars

\* the tape and its Jacobian, for the programs that hold no nested tape (on
\* the others jacobian raises before it builds the matrix)
NextJacobian ==
    \/ Enter
    \/ RecordOperation
    \/ RecordMeasurement
    \/ RecordProbability
    \/ Exit
    \/ SetTrainable
    \/ Jacobian

SpecJacobian == Init /\ [][NextJacobian]_vars

\* the tape and its recording sessions, one after the other and nested
NextSessions == Record \/ RecordProbability \/ Reenter

SpecSessions == Init /\ [][NextSessions]_vars

\* the tape and its dependency graph, for the programs that hold no nested
\* tape: the session, the setter, set_parameters, execute (which reads the
\* parameters and writes them twice), and the two calls that ask for the
\* graph
NextGraph ==
    \/ Enter
    \/ RecordOperation
    \/ RecordMeasurement
    \/ Exit
    \/ SetTrainable
    \/ SetParameters
    \/ Execute
    \/ Graph
    \/ GradMethod

SpecGraph == Init /\ [][NextGraph]_vars

\* the tape and its finite-difference estimator
NextEstimator == Record \/ SetTrainable \/ IgradNumeric

SpecEstimator == Init /\ [][NextEstimator]_vars

(***************************************************************************)
(* Properties of the parameter registry.                                   *)
(***************************************************************************)
\* the collection holds only ints inside [0, total parameter count)
InRange(param_indices) ==
    \A i \in DOMAIN param_indices :
        /\ param_indices[i].isint
        /\ 0 <= param_indices[i].v
        /\ param_indices[i].v < Len(par_info)

\* C4: num_params is the size of the trainable set, and after an accepted
\* assignment trainable_params = S, get_parameters(free_only=True) returns
\* exactly |S| values: those at the global indices in S, in ascending order
\* of the index.
C4_TrainableValues ==
    constructed =>
       /\ num_params = Cardinality(Range(trainable_params))
       /\ (last.call = "trainable_params" /\ last.exc = NoExc
              /\ ~HasNestedTape) =>
             LET S == Ascending(Range(trainable_params))
                 got == get_parameters(TRUE)
             IN  /\ got.exc = NoExc
                 /\ Len(got.val) = Len(S)
                 /\ \A k \in DOMAIN S :
                        HasKey(S[k]) /\ got.val[k] = ValueAt(data, S[k])

\* C5: whatever the current trainable set, the setter accepts every
\* collection of ints inside [0, total parameter count), which then replaces
\* the trainable set, and it rejects a collection, with ValueError, only if
\* the collection holds a negative, non-int or out-of-range index.
C5_SetterDecision ==
    constructed =>
       \A param_indices \in IndexCollections :
          LET r == trainable_params_setter(param_indices)
          IN  /\ InRange(param_indices) =>
                    /\ r.exc = NoExc
                    /\ r.trainable = [i \in DOMAIN param_indices |->
                                          param_indices[i].v]
              /\ r.exc # NoExc =>
                    r.exc = "ValueError" /\ ~InRange(param_indices)

\* C6: once the session has closed, whatever assignments were made, every
\* trainable index is a key of the registry: the trainable set is a subset
\* of [0, total parameter count).
C6_TrainableInRegistry ==
    constructed => \A idx \in Range(trainable_params) : HasKey(idx)

\* C7: on a tape that holds no nested tape, whatever the trainable set,
\* set_parameters(get_parameters(free_only=False), free_only=False) returns
\* and leaves every data vector as it was.
C7_RoundTripIdentity ==
    [][(last'.call = "round_trip" /\ ~last'.free_only /\ ~HasNestedTape)
         => (last'.exc = NoExc /\ data' = data)]_vars

\* the round trip has run on a two-parameter tape whose trainable set was
\* shrunk to the second parameter
C7_Witness ==
    /\ last.call = "round_trip" /\ ~last.free_only /\ last.exc = NoExc
    /\ ~HasNestedTape
    /\ Len(par_info) = 2
    /\ trainable_params = <<1>>
    /\ ValueAt(data, 0) = 1 /\ ValueAt(data, 1) = 2

\* C9: an assignment the setter rejects raises ValueError and leaves the
\* trainable set, num_params and every data vector as they were; every
\* collection with a negative or non-int index is rejected.
C9_RejectedAssignment ==
    [][/\ (last'.call = "trainable_params" /\ last'.exc # NoExc) =>
            /\ last'.exc = "ValueError"
            /\ trainable_params' = trainable_params
            /\ num_params' = num_params
            /\ data' = data
       /\ constructed =>
            \A param_indices \in BadCollections :
               /\ trainable_params_setter(param_indices).exc = "ValueError"
               /\ trainable_params_setter(param_indices).trainable
                     = trainable_params]_vars

\* an assignment was rejected while the trainable set was not the default
C9_Witness ==
    /\ last.call = "trainable_params" /\ last.exc = "ValueError"
    /\ Len(par_info) = 2
    /\ trainable_params = <<1>>

(***************************************************************************)
(* Properties of the executor.                                             *)
(***************************************************************************)
\* C3: when execute_device, execute or jacobian returns normally, every
\* data vector holds the values it held before the call.
C3_DataRestored ==
    [][(last'.call \in {"execute_device", "execute", "jacobian"}
          /\ last'.exc = NoExc) => data' = data]_vars

\* C8: if the device raises inside execute_device(params, device), the
\* call raises the device's error, every trainable parameter holds the
\* value of params paired with it, and no other parameter has changed: the
\* values are not restored.
C8_BackendRaises ==
    [][(last'.call = "execute_device" /\ last'.execs = 1
          /\ last'.exc # NoExc) =>
         /\ last'.exc = "DeviceError"
         /\ Len(last'.params) = num_params
         /\ \A k \in DOMAIN trainable_params :
                /\ HasKey(trainable_params[k])
                /\ ValueAt(data', trainable_params[k]) = last'.params[k]
         /\ \A idx \in 0..(Len(par_info) - 1) :
                idx \notin Range(trainable_params) =>
                   ValueAt(data', idx) = ValueAt(data, idx)]_vars

\* the device has raised inside execute_device on the tape RX(1), RY(2)
\* with both parameters trainable, and the tape holds params = (2, 1)
C8_Witness ==
    /\ last.call = "execute_device" /\ last.exc = "DeviceError"
    /\ last.params = <<2, 1>>
    /\ trainable_params = <<0, 1>>
    /\ Len(par_info) = 2
    /\ queue[par_info[1].op].name = "RX" /\ queue[par_info[2].op].name = "RY"
    /\ ValueAt(data, 0) = 2 /\ ValueAt(data, 1) = 1

(***************************************************************************)
(* Properties of the differentiation engine.                               *)
(***************************************************************************)
\* no path of the dependency graph leads from op to an observable
NoPathToObservable(op) ==
    \A k \in DOMAIN observables : ~NodesBetween(BuildGraph, op, observables[k])

\* the columns the Jacobian fills numerically
NumericColumns(cols) == { k \in DOMAIN cols : cols[k].method = "F" }

\* C1: after jacobian(device), for every trainable parameter whose operation
\* has no path to any observable, the column at the rank of the parameter
\* in the ascending trainable set is left zero and the device was not
\* executed for it, whatever the trainable set.
C1_ZeroColumn ==
    (last.call = "jacobian" /\ last.exc = NoExc /\ last.use_graph) =>
       LET S == Ascending(Range(trainable_params))
       IN  \A k \in DOMAIN last.cols :
              (/\ k \in DOMAIN S
               /\ HasKey(S[k])
               /\ NoPathToObservable(par_info[S[k] + 1].op)) =>
                 ~last.cols[k].assigned /\ last.cols[k].execs = 0

\* C2: one jacobian call executes the device 1 + N times for order 1 and
\* 2 * N times for order 2, N being the number of numeric columns.
C2_ExecutionCount ==
    (last.call = "jacobian" /\ last.exc = NoExc) =>
       LET N == Cardinality(NumericColumns(last.cols))
       IN  /\ last.order = 1 => last.execs = 1 + N
           /\ last.order = 2 => last.execs = 2 * N

PairsDim ==
    LET RECURSIVE Sum(_)
        Sum(k) == IF k = 0 THEN 0
                  ELSE (IF queue[obs[k].m].rtype = "probs"
                        THEN Pow2(Cardinality(queue[obs[k].m].wires))
                        ELSE 1) + Sum(k - 1)
    IN  Sum(Len(obs))

\* C11: when jacobian(device), called without params, returns, the matrix
\* has output_dim rows, the sum over the observable pairs of 2^|wires| for a
\* probability and 1 for any other measurement, and num_params columns.
\* This holds for the default order whatever trainable set was accepted,
\* and for every order when the trainable indices are keys of the registry.
C11_JacobianShape ==
    (/\ last.call = "jacobian" /\ last.exc = NoExc
     /\ (last.order = 1 \/ \A idx \in Range(trainable_params) : HasKey(idx)))
    => /\ last.rows = PairsDim
       /\ Len(last.cols) = num_params

\* jacobian(device) has returned a matrix of 5 rows and 1 column: a
\* probability on two wires and an expectation value are measured and the
\* trainable set was shrunk to one index
C11_Witness ==
    /\ last.call = "jacobian" /\ last.exc = NoExc
    /\ last.order = 1 /\ last.use_graph
    /\ last.rows = 5
    /\ Len(last.cols) = 1
    /\ Len(par_info) = 2

\* C12: after jacobian(device), column k is treated by the method of the
\* operation that owns the k-th smallest trainable index: when that
\* operation is undifferentiable the column is left zero, and when it is
\* differentiable and has a path to an observable the column is filled by
\* the finite-difference estimator.
C12_ColumnMethod ==
    (last.call = "jacobian" /\ last.exc = NoExc) =>
       LET S == Ascending(Range(trainable_params))
       IN  \A k \in DOMAIN last.cols :
              (k \in DOMAIN S /\ HasKey(S[k])) =>
                 LET op == par_info[S[k] + 1].op
                 IN  /\ queue[op].grad = "None" => ~last.cols[k].assigned
                     /\ (queue[op].grad # "None" /\ ~NoPathToObservable(op))
                           => /\ last.cols[k].method = "F"
                              /\ last.cols[k].assigned

\* C13: on a constructed tape set_parameters(values), when it returns, has
\* written values[k] to the slot of the k-th smallest trainable index, so
\* that get_parameters() then returns values; and writing back what
\* get_parameters() returns changes no data vector.  This is to hold in
\* whatever order the trainable collection iterates.
C13_SetInvertsGet ==
    constructed =>
       /\ \A values \in ParamSeqs(num_params) :
             LET r == set_parameters_of(data, values, TRUE)
                 S == Ascending(Range(trainable_params))
             IN  r.exc = NoExc =>
                    /\ \A k \in DOMAIN S : ValueAt(r.data, S[k]) = values[k]
                    /\ LET g == get_parameters_of(r.data, TRUE)
                       IN  g.exc = NoExc => g.val = values
       /\ LET g == get_parameters(TRUE)
          IN  g.exc = NoExc =>
                 LET r == set_parameters_of(data, g.val, TRUE)
                 IN  r.exc = NoExc => r.data = data

\* the objects created inside the sessions that the queue holds (the
\* observable a measurement wraps comes with its measurement)
Recorded == { i \in DOMAIN queue : queue[i].info # "owner" }

\* C14: while a recording session is open on the tape, a nested session
\* that has closed included, Operation.queue is the redirect, and every
\* object created inside the session is recorded into the tape.
C14_RedirectWhileOpen ==
    /\ active => patched
    /\ Cardinality(Recorded) = records

\* C15: whatever sessions were opened and closed on the tape, every queue
\* entry appears at most once in _ops and in the pairs of _obs, _output_dim
\* counts every measurement once, and get_parameters(free_only=False)
\* returns as many values as _par_info has entries.
C15_ConstructedOnce ==
    constructed =>
       /\ \A i, j \in DOMAIN ops : ops[i] = ops[j] => i = j
       /\ \A i, j \in DOMAIN obs : obs[i].m = obs[j].m => i = j
       /\ output_dim = ConstructDim(1)
       /\ LET g == get_parameters(FALSE)
          IN  g.exc = NoExc => Len(g.val) = Len(par_info)

\* the data-vector slots of the top-level operation entries of the queue
\* (the entries with empty annotation-info that are operations)
TopLevelSlots ==
    UNION { { [op |-> i, p_idx |-> p - 1] : p \in 1..Len(data[i]) } :
              i \in { k \in DOMAIN queue :
                         queue[k].kind = "op" /\ queue[k].info = "none" } }

\* C16: after the session has closed, the keys of _par_info are 0..N-1, N
\* being the number of data-vector slots of the top-level operation
\* entries, and the entries are those slots in queue order (so no
\* annotated operation and no parameter inside a nested tape has an entry);
\* get_parameters(free_only=False) returns N values and entry i is the
\* slot that holds value i; and the session leaves the trainable set at
\* 0..N-1.
C16_RegistryLayout ==
    constructed =>
       /\ Len(par_info) = Cardinality(TopLevelSlots)
       /\ Range(par_info) = TopLevelSlots
       /\ \A k, l \in DOMAIN par_info :
             k < l => \/ par_info[k].op < par_info[l].op
                      \/ /\ par_info[k].op = par_info[l].op
                         /\ par_info[k].p_idx < par_info[l].p_idx
       /\ LET g == get_parameters(FALSE)
          IN  /\ g.exc = NoExc
              /\ Len(g.val) = Len(par_info)
              /\ \A i \in 0..(Len(par_info) - 1) :
                    g.val[i + 1] = ValueAt(data, i)
       /\ last.call = "exit" =>
             trainable_params = RangeSeq(Cardinality(TopLevelSlots))

\* the cached graph holds a path from op to an observable
CachedPath(op) ==
    \E k \in DOMAIN observables : NodesBetween(graph, op, observables[k])

=============================================================================
